---- MODULE Spec2Model ----
(***************************************************************************)
(* Model of the Analysis Studio (.axd) importer, src/anasys_xml.c:         *)
(* anasys_load, readHeightMaps and readSpectra.                            *)
(*                                                                         *)
(* The XML document is the input.  It is read lazily: each step of a loop  *)
(* of the code draws the element it visits from a bounded set.             *)
(*                                                                         *)
(* Numbers.  Angles are whole degrees.  A unit multiplier 1.0E-k is kept   *)
(* as its decimal exponent -k (1.0 is 0).  A guint32 is kept as the signed *)
(* 32-bit integer with the same bit pattern.  Payload sizes are bytes.     *)
(***************************************************************************)
EXTENDS Integers, Sequences, FiniteSets, TLC

VARIABLES
    pc,            \* position in anasys_load
    rootElement,   \* anasys_load: rootElement, "NULL" or "node"
    props,         \* anasys_load: root name and attributes, ptDocType, ptVersion
    nSections,     \* ordinal of the section element being visited
    valid_images,  \* anasys_load: valid_images
    container,     \* the GwyContainer: data, meta, title and sps keys
    imageNum,      \* readHeightMaps: imageNum
    hm_valid,      \* readHeightMaps: valid_images
    nChildren,     \* number of child elements visited in the current section
    chan,          \* readHeightMaps: the locals after the last loop body
    specNum,       \* readSpectra: specNum
    spectra_all,   \* readSpectra: spectra_all
    ent,           \* readSpectra: the locals after the last loop body
    errors,        \* the g_set_error calls on the caller's GError slot, in order
    result,        \* what anasys_load returned
    totalValid,    \* history: rasters stored under a primary index so far
    decoded,       \* history: entries decoded successfully, in document order
    mismatched,    \* history: entries skipped for a payload size mismatch
    owned          \* anasys_load: what the call has acquired and not released

vars == <<pc, rootElement, props, nSections, valid_images, container, imageNum,
          hm_valid, nChildren, chan, specNum, spectra_all, ent, errors,
          result, totalValid, decoded, mismatched, owned>>

(***************************************************************************)
(* Bounds of the model.                                                    *)
(***************************************************************************)
MaxSections == 3
MaxChannels == 2
MaxEntries == 2
MaxTurn == 12
MaxElems == 2

(***************************************************************************)
(* Program constants.                                                      *)
(***************************************************************************)
RotatedBase == 1000000
SizeofGfloat == 4

(***************************************************************************)
(* 32-bit unsigned arithmetic on bit patterns.                             *)
(***************************************************************************)
Lo16(s) == s % 65536
Hi16(s) == ((s - Lo16(s)) \div 65536) % 65536

\* low and high 16 bits of the product of two 16-bit values
MulLo16(x, y) ==
    LET t == ((x \div 256) * (y % 256) + (x % 256) * (y \div 256)) * 256
             + (x % 256) * (y % 256)
    IN  t % 65536
MulHi16(x, y) ==
    LET t == ((x \div 256) * (y % 256) + (x % 256) * (y \div 256)) * 256
             + (x % 256) * (y % 256)
    IN  ((x \div 256) * (y \div 256) + (t \div 65536)) % 65536

\* guint32 * guint32, line 401
Mul32(a, b) ==
    LET lo == MulLo16(Lo16(a), Lo16(b))
        hi == (MulHi16(Lo16(a), Lo16(b)) + MulLo16(Hi16(a), Lo16(b))
               + MulLo16(Lo16(a), Hi16(b))) % 65536
    IN  IF hi < 32768 THEN hi * 65536 + lo ELSE (hi - 65536) * 65536 + lo

\* decoded_size != sizeof(gfloat)*n, a 64-bit comparison of unsigned values
SizeMismatch(decoded_size, n) ==
    \/ decoded_size % SizeofGfloat # 0
    \/ decoded_size \div SizeofGfloat # n

(***************************************************************************)
(* libxml2 and GLib primitives as the code uses them.                      *)
(***************************************************************************)
XmlStrEqual(a, b) == IF a # "NULL" /\ a = b THEN 1 ELSE 0

Put(f, k, v) == [x \in (DOMAIN f) \cup {k} |-> IF x = k THEN v ELSE f[x]]

EmptyContainer == [data |-> <<>>, meta |-> <<>>, title |-> <<>>, sps |-> <<>>]

\* err_FILE_TYPE, err_NO_DATA, err_SIZE_MISMATCH: g_set_error on the caller's slot
SetError(e) == errors' = Append(errors, e)

\* what the caller finds in the slot: g_set_error keeps the first error set
ErrorSlot == IF errors = <<>> THEN "none" ELSE Head(errors)

NoProps == [name |-> "NULL", DocType |-> "NULL", Version |-> "NULL",
            ptDocType |-> "NULL", ptVersion |-> "NULL"]

NoChan == [live |-> FALSE]
NoEnt == [live |-> FALSE]
NoSpectra == [title |-> "", spectra |-> <<>>]

Last(s) == s[Len(s)]
SeqsUpTo(S, n) == UNION {[1..k -> S] : k \in 0..n}

Init ==
    /\ pc = "start"
    /\ rootElement = "NULL"
    /\ props = NoProps
    /\ nSections = 0
    /\ valid_images = 0
    /\ container = EmptyContainer
    /\ imageNum = 0
    /\ hm_valid = 0
    /\ nChildren = 0
    /\ chan = NoChan
    /\ specNum = 0
    /\ spectra_all = NoSpectra
    /\ ent = NoEnt
    /\ errors = <<>>
    /\ result = "pending"
    /\ totalValid = 0
    /\ decoded = <<>>
    /\ mismatched = {}
    /\ owned = {}

(***************************************************************************)
(* anasys_load, lines 109-131: parse the file and validate the root.       *)
(***************************************************************************)
RootNames == {"Document", "Other"}
DocTypes == {"NULL", "IR", "XX"}
Versions == {"NULL", "1.0", "2.0"}

\* lines 124-125: the condition under which err_FILE_TYPE is raised
FileTypeMismatch(ptDocType, ptVersion) ==
    XmlStrEqual(ptDocType, "IR") - XmlStrEqual(ptVersion, "1.0") # 0

\* lines 110-111 and 120-123: the container, the document and the copies of
\* the attribute values that xmlGetProp returns
Acquired(root, name, docType, version) ==
    {"container", "doc"}
    \cup (IF root = "node" /\ name = "Document" /\ docType # "NULL"
          THEN {"ptDocType"} ELSE {})
    \cup (IF root = "node" /\ name = "Document" /\ version # "NULL"
          THEN {"ptVersion"} ELSE {})

Validate(root, name, docType, version) ==
    /\ pc = "start"
    /\ rootElement' = root
    /\ owned' = Acquired(root, name, docType, version)
    /\ IF root = "node" /\ name = "Document"
       THEN /\ props' = [name |-> name, DocType |-> docType, Version |-> version,
                         ptDocType |-> docType, ptVersion |-> version]
            /\ IF FileTypeMismatch(docType, version)
               THEN /\ SetError("FileTypeError")
                    /\ result' = "NULL"
                    /\ pc' = "done"
               ELSE /\ UNCHANGED <<errors, result>>
                    /\ pc' = "validated"
       ELSE /\ props' = [name |-> IF root = "node" THEN name ELSE "NULL",
                         DocType |-> IF root = "node" THEN docType ELSE "NULL",
                         Version |-> IF root = "node" THEN version ELSE "NULL",
                         ptDocType |-> "NULL", ptVersion |-> "NULL"]
            /\ UNCHANGED <<errors, result>>
            /\ pc' = "validated"
    /\ UNCHANGED <<nSections, valid_images, container, imageNum, hm_valid,
                   nChildren, chan, specNum, spectra_all, ent, totalValid,
                   decoded, mismatched>>

\* line 134 with rootElement NULL: the load of rootElement->children through
\* a null pointer is undefined; the build faults, or reads whatever lies there
\* as the list of children
NullRootOutcomes == {"crashed", "sections"}

\* lines 132-134: free the attribute copies, then read rootElement->children
FreeProps ==
    /\ pc = "validated"
    /\ props' = NoProps
    /\ owned' = owned \ {"ptDocType", "ptVersion"}
    /\ \E outcome \in NullRootOutcomes :
           pc' = IF rootElement = "NULL" THEN outcome ELSE "sections"
    /\ UNCHANGED <<rootElement, nSections, valid_images, container, imageNum,
                   hm_valid, nChildren, chan, specNum, spectra_all, ent, errors,
                   result, totalValid, decoded, mismatched>>

(***************************************************************************)
(* anasys_load, lines 134-145: the loop over the root's children.          *)
(***************************************************************************)
\* lines 139-141: a HeightMaps element, readHeightMaps lines 160-162
EnterHeightMaps ==
    /\ pc = "sections"
    /\ nSections < MaxSections
    /\ nSections' = nSections + 1
    /\ imageNum' = 0
    /\ hm_valid' = 0
    /\ nChildren' = 0
    /\ pc' = "hm"
    /\ UNCHANGED <<rootElement, props, valid_images, container, chan, specNum,
                   spectra_all, ent, errors, result, totalValid,
                   decoded, mismatched,
                   owned>>

\* lines 142-144: a RenderedSpectra element, readSpectra lines 540, 562-566
EnterSpectra ==
    /\ pc = "sections"
    /\ nSections < MaxSections
    /\ nSections' = nSections + 1
    /\ specNum' = 0
    /\ spectra_all' = [NoSpectra EXCEPT !.title = "All Spectra"]
    /\ owned' = owned \cup {"spectra_all"}
    /\ nChildren' = 0
    /\ pc' = "sp"
    /\ UNCHANGED <<rootElement, props, valid_images, container, imageNum,
                   hm_valid, chan, ent, errors, result, totalValid,
                   decoded, mismatched>>

\* lines 137-144: a child that is no element, or an element of another name
OtherSection ==
    /\ pc = "sections"
    /\ nSections < MaxSections
    /\ nSections' = nSections + 1
    /\ UNCHANGED <<pc, rootElement, props, valid_images, container, imageNum,
                   hm_valid, nChildren, chan, specNum, spectra_all, ent, errors,
                   result, totalValid, decoded, mismatched,
                   owned>>

\* lines 146-153: free the document and decide the outcome
Finish ==
    /\ pc = "sections"
    /\ pc' = "done"
    /\ IF valid_images = 0
       THEN /\ SetError("NoDataError")
            /\ result' = "NULL"
            /\ owned' = owned \ {"doc"}
       ELSE /\ result' = "container"
            /\ owned' = owned \ {"doc", "container"}
            /\ UNCHANGED errors
    /\ UNCHANGED <<rootElement, props, nSections, valid_images, container,
                   imageNum, hm_valid, nChildren, chan, specNum, spectra_all,
                   ent, totalValid, decoded, mismatched>>

(***************************************************************************)
(* readHeightMaps, lines 197-531: one pass of the loop over the channels.  *)
(* A channel element is [Label, Resolution, UnitPrefix, Tags,              *)
(* SampleBase64, Units, Position, Size]: the Label attribute, the X and Y  *)
(* texts of the Resolution child as atoi reads them, in document order the *)
(* texts of its UnitPrefix children, its Tag elements and the decoded byte *)
(* lengths of its SampleBase64 children, the Units text, and the X and Y   *)
(* texts of Position and Size in micrometres.                              *)
(***************************************************************************)
\* lines 310-319: the multiplier after one UnitPrefix element
PrefixMultiplier(key, zUnitMultiplier) ==
    IF key = "f" THEN -15
    ELSE IF key = "p" THEN -12
    ELSE IF key = "n" THEN -9
    ELSE IF key = "u" THEN -6
    ELSE IF key = "m" THEN -3
    ELSE zUnitMultiplier

\* variant: the multiplier of the channel before is kept
CarriedMultiplier(previous) ==
    IF previous.live THEN previous.zUnitMultiplier ELSE 0

\* lines 211, 305-321: zUnitMultiplier starts at 1.0 for every channel
DefaultMultiplier(previous) == 0

RECURSIVE UnitPrefixLoop(_, _)
UnitPrefixLoop(keys, zUnitMultiplier) ==
    IF keys = <<>> THEN zUnitMultiplier
    ELSE UnitPrefixLoop(Tail(keys), PrefixMultiplier(Head(keys), zUnitMultiplier))

\* lines 343-344
RECURSIVE ReduceAbove(_)
ReduceAbove(scan_angle) ==
    IF scan_angle > 180 THEN ReduceAbove(scan_angle - 360) ELSE scan_angle

\* variant: the lower end of the range is not reduced
BelowLowerEnd(scan_angle) == scan_angle < -180

\* lines 345-346: the loop condition
AtOrBelowLowerEnd(scan_angle) == scan_angle <= -180

RECURSIVE ReduceBelow(_)
ReduceBelow(scan_angle) ==
    IF AtOrBelowLowerEnd(scan_angle) THEN ReduceBelow(scan_angle + 360)
    ELSE scan_angle

\* lines 343-346: both loops, in the order of the code
Normalize(scan_angle) == ReduceBelow(ReduceAbove(scan_angle))

\* g_ascii_strtod on the Value text: the leading number, 0 when there is none
Strtod(value) == IF value.numeric THEN value.num ELSE 0

\* lines 331-351: scan_angle after one Tag element
TagScanAngle(tag, scan_angle) ==
    IF XmlStrEqual(tag.Name, "ScanAngle") = 1
    THEN IF tag.Value.space
         THEN Normalize(Strtod(tag.Value))
         ELSE 0
    ELSE scan_angle

RECURSIVE TagsLoop(_, _)
TagsLoop(tags, scan_angle) ==
    IF tags = <<>> THEN scan_angle
    ELSE TagsLoop(Tail(tags), TagScanAngle(Head(tags), scan_angle))

\* lines 203, 364-370, 413-414: absent payload decodes to nothing
DecodedSize(payloads) == IF payloads = <<>> THEN 0 ELSE Last(payloads)

\* variant: the branch for 180 degrees is missing
IsObliqueBut180(scan_angle) == scan_angle \notin {0, 90, -90}

\* lines 426-467: the dispatch on the scan angle
IsOblique(scan_angle) == scan_angle \notin {0, 180, 90, -90}
SwapsAxes(scan_angle) == scan_angle \in {90, -90}

\* lines 402-403 and 415-421: the two tests that skip a channel
SkipsChannel(num_px, decoded_size) ==
    IF num_px = 0 THEN "zero"
    ELSE IF SizeMismatch(decoded_size, num_px) THEN "mismatch"
    ELSE "stored"

\* Physical lengths are whole numbers of quarter micrometres, so that the
\* halves of lines 474-483 stay whole: x*1.0E-6 is Micro(x).
Micro(x) == 4 * x

\* the offset 1.0 of lines 471-472
UnrotatedOffset == Micro(1000000)

\* variant: the extent is never swapped
ExtentUnswapped(scan_angle, range_x, range_y) == <<range_x, range_y>>

\* lines 426-455: width and height of a channel with a canonical angle
CanonicalExtent(scan_angle, range_x, range_y) ==
    IF SwapsAxes(scan_angle) THEN <<range_y, range_x>>
    ELSE <<range_x, range_y>>

\* lines 480-483: (pos - 0.5*width)*1.0E-6
CanonicalOffset(pos, width) == Micro(pos) - 2 * width

\* lines 473-476: pos*1.0E-6 - 0.5*width, width being a length of the
\* rotated field
RotatedOffset(pos, width) == Micro(pos) - width \div 2

\* lines 486-520: the keys written for a decoded channel
\* a raster is its grid size, its physical size and offsets, and the
\* multiplier its samples were scaled by (gwy_convert_raw_data, lines 422-424);
\* geom holds Position and Size of the channel and the physical size
\* gwy_data_field_new_rotated gave the rotated field
StoreChannel(c, n, label, xres, yres, scan_angle, scale, meta, geom) ==
    LET swap == SwapsAxes(scan_angle)
        oblique == IsOblique(scan_angle)
        extent == CanonicalExtent(scan_angle, geom.range[1], geom.range[2])
        dfield == [field |-> "dfield",
                   xres |-> IF swap THEN yres ELSE xres,
                   yres |-> IF swap THEN xres ELSE yres,
                   xreal |-> Micro(IF swap THEN geom.range[2]
                                   ELSE geom.range[1]),
                   yreal |-> Micro(IF swap THEN geom.range[1]
                                   ELSE geom.range[2]),
                   xoff |-> IF oblique THEN UnrotatedOffset
                            ELSE CanonicalOffset(geom.pos[1], extent[1]),
                   yoff |-> IF oblique THEN UnrotatedOffset
                            ELSE CanonicalOffset(geom.pos[2], extent[2]),
                   scale |-> scale]
        \* the rotated canvas is sized by the library; the record keeps the
        \* grid it was rotated from
        dfield_rotate == [field |-> "dfield_rotate", xres |-> xres,
                          yres |-> yres,
                          xreal |-> geom.rotated[1],
                          yreal |-> geom.rotated[2],
                          xoff |-> RotatedOffset(geom.pos[1], geom.rotated[1]),
                          yoff |-> RotatedOffset(geom.pos[2], geom.rotated[2]),
                          scale |-> scale]
    IN  IF IsOblique(scan_angle)
        THEN [c EXCEPT
                !.data = Put(Put(c.data, n, dfield), RotatedBase + n, dfield_rotate),
                !.meta = Put(Put(c.meta, n, meta), RotatedBase + n, meta),
                !.title = Put(Put(c.title, RotatedBase + n, label \o " (Rotated)"),
                              n, label \o " (Offset)")]
        ELSE [c EXCEPT
                !.data = Put(c.data, n, dfield),
                !.meta = Put(c.meta, n, meta),
                !.title = Put(c.title, n, label)]

\* lines 225, 300, 368, 404, 413, 459: what one pass of the loop acquires;
\* g_base64_decode allocates only when it is given a text
ChannelAcquired(childNode, outcome, scan_angle) ==
    {"meta"}
    \cup (IF childNode.Units # "NULL" THEN {"zUnit"} ELSE {})
    \cup (IF childNode.SampleBase64 # <<>> THEN {"base64DataString"} ELSE {})
    \cup (IF outcome # "zero" THEN {"dfield"} ELSE {})
    \cup (IF outcome # "zero" /\ childNode.SampleBase64 # <<>>
          THEN {"decodedData"} ELSE {})
    \cup (IF outcome = "stored" /\ IsOblique(scan_angle)
          THEN {"dfield_rotate"} ELSE {})

\* lines 403, 420: continue releases nothing; lines 511, 526-530 after a
\* stored channel
ChannelReleased(outcome) ==
    IF outcome = "stored"
    THEN {"meta", "dfield", "dfield_rotate", "zUnit", "decodedData",
          "base64DataString"}
    ELSE {}

\* what a pass leaves behind; line 368 overwrites the pointer to an earlier
\* copy when the channel has several SampleBase64 elements
ChannelUnreleased(childNode, outcome, scan_angle) ==
    (ChannelAcquired(childNode, outcome, scan_angle) \ ChannelReleased(outcome))
    \cup (IF Len(childNode.SampleBase64) > 1
          THEN {"base64DataString"} ELSE {})

\* lines 524: the count of valid images after a stored channel
CountValid(valid) == valid + 1

ReadChannel(childNode) ==
    /\ pc = "hm"
    /\ nChildren < MaxChannels
    /\ nChildren' = nChildren + 1
    /\ LET n == imageNum + 1
           resolution_x == childNode.Resolution[1]
           resolution_y == childNode.Resolution[2]
           zUnitMultiplier == UnitPrefixLoop(childNode.UnitPrefix,
                                             DefaultMultiplier(chan))
           scan_angle == TagsLoop(childNode.Tags, 0)
           num_px == Mul32(resolution_x, resolution_y)
           decoded_size == DecodedSize(childNode.SampleBase64)
           outcome == SkipsChannel(num_px, decoded_size)
           meta == <<nSections, n>>
           geom == [pos |-> childNode.Position, range |-> childNode.Size,
                    rotated |-> childNode.Rotated]
       IN  /\ imageNum' = n
           /\ chan' = [live |-> TRUE, childNode |-> childNode, imageNum |-> n,
                       resolution_x |-> resolution_x,
                       resolution_y |-> resolution_y,
                       zUnitMultiplier |-> zUnitMultiplier,
                       scan_angle |-> scan_angle, num_px |-> num_px,
                       decoded_size |-> decoded_size,
                       oblique_angle |-> IF outcome = "stored"
                                            /\ IsOblique(scan_angle)
                                         THEN 1 ELSE 0,
                       meta |-> meta, outcome |-> outcome,
                       unreleased |-> ChannelUnreleased(childNode, outcome,
                                                        scan_angle),
                       emitted |-> IF outcome = "stored"
                                   THEN StoreChannel(EmptyContainer, n,
                                            childNode.Label, resolution_x,
                                            resolution_y, scan_angle,
                                            zUnitMultiplier, meta, geom)
                                   ELSE EmptyContainer]
           /\ IF outcome = "stored"
              THEN /\ container' = StoreChannel(container, n, childNode.Label,
                                                resolution_x, resolution_y,
                                                scan_angle, zUnitMultiplier,
                                                meta, geom)
                   /\ hm_valid' = CountValid(hm_valid)
                   /\ totalValid' = totalValid + 1
                   /\ UNCHANGED errors
              ELSE /\ UNCHANGED <<container, hm_valid, totalValid>>
                   /\ IF outcome = "mismatch"
                      THEN SetError("SizeMismatchError")
                      ELSE UNCHANGED errors
    /\ UNCHANGED <<pc, rootElement, props, nSections, valid_images, specNum,
                   spectra_all, ent, result, decoded, mismatched,
                   owned>>

\* line 532 and lines 140-141: the section's count replaces valid_images
SectionCount(old, returned) == returned

ReturnHeightMaps ==
    /\ pc = "hm"
    /\ valid_images' = SectionCount(valid_images, hm_valid)
    /\ chan' = NoChan
    /\ pc' = "sections"
    /\ UNCHANGED <<rootElement, props, nSections, container, imageNum, hm_valid,
                   nChildren, specNum, spectra_all, ent, errors,
                   result, totalValid, decoded, mismatched,
                   owned>>

(***************************************************************************)
(* readSpectra, lines 567-704: one pass of the loop over the entries.      *)
(* An entry element is [name, Label, DataPoints, StartWavenumber,          *)
(* EndWavenumber, SampleBase64]: its element name, its Label text, its     *)
(* DataPoints text as atoi reads it, the two wavenumbers and the decoded   *)
(* byte lengths of its SampleBase64 payloads.                              *)
(***************************************************************************)
\* lines 562-566, 586-589: a collection is a title and its spectra in order
NewSpectra(title) == [NoSpectra EXCEPT !.title = title]

\* gwy_spectra_add_spectrum, lines 675-678
AddSpectrum(spectra, dataline) ==
    [spectra EXCEPT !.spectra = Append(@, dataline)]

\* 1.0/x in gdouble arithmetic, lines 670-671: division by zero gives infinity
Reciprocal(x) ==
    IF x = 0 THEN [kind |-> "inf"]
    ELSE [kind |-> "fin", num |-> 1, den |-> x]

\* 1.0 + f, line 671
OnePlus(f) ==
    IF f.kind = "fin" THEN [f EXCEPT !.num = f.den + f.num] ELSE f

\* d*f, line 671: a finite d times infinity is infinite, zero times infinity
\* is not a number
Times(d, f) ==
    IF f.kind = "fin" THEN [f EXCEPT !.num = d * f.num]
    ELSE IF d > 0 THEN [kind |-> "inf"]
    ELSE IF d < 0 THEN [kind |-> "-inf"]
    ELSE [kind |-> "nan"]

\* the second argument of gwy_data_line_new, line 671
DataLineReal(startWavenum, endWavenum, numDataPoints) ==
    Times(endWavenum - startWavenum, OnePlus(Reciprocal(numDataPoints - 1)))

\* gwy_data_line_new and gwy_data_line_set_offset, lines 670-673
NewDataLine(entry, numDataPoints, startWavenum, endWavenum) ==
    [entry |-> entry, res |-> numDataPoints,
     real |-> DataLineReal(startWavenum, endWavenum, numDataPoints),
     off |-> startWavenum]

\* lines 668-669 and 687-693: the two tests that skip an entry
SkipsEntry(numDataPoints, decoded_size) ==
    IF numDataPoints = 0 THEN "nopoints"
    ELSE IF SizeMismatch(decoded_size, numDataPoints) THEN "mismatch"
    ELSE "stored"

\* lines 586, 661, 670, 685: what one pass of the loop acquires
EntryAcquired(childNode, outcome) ==
    {"spectra"}
    \cup (IF childNode.SampleBase64 # <<>> THEN {"base64SpecString"} ELSE {})
    \cup (IF outcome # "nopoints" THEN {"dataline"} ELSE {})
    \cup (IF outcome # "nopoints" /\ childNode.SampleBase64 # <<>>
          THEN {"decodedData"} ELSE {})

\* line 669 releases nothing, line 691 the payload copy, lines 697 and 702
\* the decoded buffer and the payload copy
EntryReleased(outcome) ==
    IF outcome = "stored" THEN {"decodedData", "base64SpecString"}
    ELSE IF outcome = "mismatch" THEN {"base64SpecString"}
    ELSE {}

EntryUnreleased(childNode, outcome) ==
    EntryAcquired(childNode, outcome) \ EntryReleased(outcome)

\* lines 699-700: the key of a per-entry collection
StoreSpectra(c, n, spectra) == [c EXCEPT !.sps = Put(c.sps, n, spectra)]

ReadEntry(childNode) ==
    /\ pc = "sp"
    /\ nChildren < MaxEntries
    /\ nChildren' = nChildren + 1
    /\ IF XmlStrEqual(childNode.name, "IRRenderedSpectra") = 0
       THEN /\ ent' = [live |-> TRUE, childNode |-> childNode,
                       specNum |-> specNum, outcome |-> "ignored"]
            /\ UNCHANGED <<specNum, spectra_all, container, errors,
                           decoded, mismatched>>
       ELSE LET n == specNum + 1
                numDataPoints == childNode.DataPoints
                decoded_size == DecodedSize(childNode.SampleBase64)
                outcome == SkipsEntry(numDataPoints, decoded_size)
                dataline == NewDataLine(<<nSections, n>>, numDataPoints,
                                        childNode.StartWavenumber,
                                        childNode.EndWavenumber)
                spectra == AddSpectrum(NewSpectra(childNode.Label), dataline)
            IN  /\ specNum' = n
                /\ ent' = [live |-> TRUE, childNode |-> childNode,
                           specNum |-> n, outcome |-> outcome,
                           unreleased |-> EntryUnreleased(childNode, outcome),
                           dataline |-> IF outcome = "nopoints" THEN <<>>
                                        ELSE dataline]
                /\ IF outcome = "nopoints"
                   THEN UNCHANGED <<spectra_all, container, errors,
                                    decoded, mismatched>>
                   ELSE /\ spectra_all' = AddSpectrum(spectra_all, dataline)
                        /\ IF outcome = "mismatch"
                           THEN /\ SetError("SizeMismatchError")
                                /\ mismatched' = mismatched \cup {<<nSections, n>>}
                                /\ UNCHANGED <<container, decoded>>
                           ELSE /\ container' = StoreSpectra(container, n, spectra)
                                /\ decoded' = Append(decoded, <<nSections, n>>)
                                /\ UNCHANGED <<errors, mismatched>>
    /\ UNCHANGED <<pc, rootElement, props, nSections, valid_images, imageNum,
                   hm_valid, chan, result, totalValid,
                   owned>>

\* line 704: the aggregate collection is stored under key 0
ReturnSpectra ==
    /\ pc = "sp"
    /\ container' = StoreSpectra(container, 0, spectra_all)
    /\ ent' = NoEnt
    /\ spectra_all' = NoSpectra
    /\ pc' = "sections"
    /\ UNCHANGED <<rootElement, props, nSections, valid_images, imageNum,
                   hm_valid, nChildren, chan, specNum, errors,
                   result, totalValid, decoded, mismatched,
                   owned>>

(***************************************************************************)
(* The documents read.                                                     *)
(***************************************************************************)
Labels == {"Height", "IR"}
DataPointVals == {0, 1}
PayloadBytes == {4, 8}
Prefixes == {"f", "p", "n", "u", "m", "k", ""}
AngleNums == {45 * k : k \in (-MaxTurn)..MaxTurn}

AngleValue(num, space) == [numeric |-> TRUE, num |-> num, space |-> space]
WordValue == [numeric |-> FALSE, num |-> 0, space |-> TRUE]
ScanAngleTag(value) == [Name |-> "ScanAngle", Value |-> value]
OtherTag == [Name |-> "SetPoint", Value |-> AngleValue(45, TRUE)]

\* Rotated is not text of the file: it is the physical size that
\* gwy_data_field_new_rotated gives the rotated field of an oblique channel
Channel(label, res, prefixes, tags, payloads) ==
    [Label |-> label, Resolution |-> res, UnitPrefix |-> prefixes,
     Tags |-> tags, SampleBase64 |-> payloads, Units |-> "V",
     Position |-> <<10, 20>>, Size |-> <<4, 6>>, Rotated |-> <<28, 28>>]

\* the channels of the pipeline runs: every resolution against every payload
\* size, a canonical and an oblique scan angle
Channels ==
    {Channel("Height", r, <<>>, t, b) :
        r \in {<<0, 1>>, <<1, 1>>},
        t \in {<<>>, <<ScanAngleTag(AngleValue(45, TRUE))>>},
        b \in SeqsUpTo(PayloadBytes, 1)}

Entries ==
    [name : {"IRRenderedSpectra", "Comment"}, Label : {"Spectrum"},
     DataPoints : DataPointVals, StartWavenumber : {1000},
     EndWavenumber : {2000}, SampleBase64 : SeqsUpTo(PayloadBytes, 1)]

Roots ==
    {<<"NULL", "NULL", "NULL", "NULL">>}
    \cup {<<"node", n, d, v>> : n \in RootNames, d \in DocTypes, v \in Versions}

Begin == \E r \in Roots : Validate(r[1], r[2], r[3], r[4])
HeightMap == \E c \in Channels : ReadChannel(c)
Spectrum == \E e \in Entries : ReadEntry(e)

Next ==
    \/ Begin
    \/ FreeProps
    \/ EnterHeightMaps
    \/ HeightMap
    \/ ReturnHeightMaps
    \/ EnterSpectra
    \/ Spectrum
    \/ ReturnSpectra
    \/ OtherSection
    \/ Finish

Spec == Init /\ [][Next]_vars

(***************************************************************************)
(* One call of readHeightMaps, on the first section of a document.  The    *)
(* three specifications differ in the channels read: wide in resolution    *)
(* and payload, wide in the ScanAngle tags, wide in the UnitPrefix texts.  *)
(***************************************************************************)
FirstHeightMaps == nSections = 0 /\ EnterHeightMaps

\* resolutions as atoi and the cast to guint32 give them: small, negative,
\* and large enough for the product to wrap
ResWide == {-1, 0, 1, 2, 4, 65536, 1073741825}
PayloadsWide == {<<>>, <<4>>, <<8>>, <<16>>, <<8, 4>>}

ChannelsMaps ==
    {Channel("Height", r, <<>>, t, b) :
        r \in ResWide \X ResWide,
        t \in {<<>>, <<ScanAngleTag(AngleValue(45, TRUE))>>},
        b \in PayloadsWide}

SizedHeightMap == \E c \in ChannelsMaps : ReadChannel(c)

NextMaps ==
    \/ Begin
    \/ FreeProps
    \/ FirstHeightMaps
    \/ SizedHeightMap
    \/ ReturnHeightMaps
    \/ Finish

SpecMaps == Init /\ [][NextMaps]_vars

\* the Value texts of a Tag: "<n> deg" and "<n>" for every angle, and a word
TagValues ==
    {AngleValue(n, sp) : n \in AngleNums, sp \in BOOLEAN} \cup {WordValue}
TagsWide ==
    {<<>>, <<OtherTag>>}
    \cup {<<ScanAngleTag(v)>> : v \in TagValues}
    \cup {<<ScanAngleTag(AngleValue(45, TRUE)), ScanAngleTag(v)>> :
            v \in {AngleValue(90, FALSE), AngleValue(-270, TRUE), WordValue}}
    \cup {<<ScanAngleTag(AngleValue(90, TRUE)), OtherTag>>}

ChannelsAngle ==
    {Channel(l, <<1, 2>>, <<>>, t, b) :
        l \in Labels, t \in TagsWide, b \in {<<8>>, <<4>>}}

AngledHeightMap == \E c \in ChannelsAngle : ReadChannel(c)

NextAngle ==
    \/ Begin
    \/ FreeProps
    \/ FirstHeightMaps
    \/ AngledHeightMap
    \/ ReturnHeightMaps
    \/ Finish

SpecAngle == Init /\ [][NextAngle]_vars

\* one-pixel channels with every sequence of UnitPrefix texts, and one whose
\* payload has the wrong size
ChannelsPrefix ==
    {Channel("Height", <<1, 1>>, p, <<>>, <<4>>) :
        p \in SeqsUpTo(Prefixes, MaxElems)}
    \cup {Channel("Height", <<1, 1>>, <<"n">>, <<>>, <<8>>)}

PrefixedHeightMap == \E c \in ChannelsPrefix : ReadChannel(c)

NextPrefix ==
    \/ Begin
    \/ FreeProps
    \/ FirstHeightMaps
    \/ PrefixedHeightMap
    \/ ReturnHeightMaps
    \/ Finish

SpecPrefix == Init /\ [][NextPrefix]_vars

\* One HeightMaps section whose channels vary in position, size and angle.
Positions == {<<0, 0>>, <<10, -3>>}
Sizes == {<<4, 6>>, <<1, 1>>}
RotatedSizes == {<<28, 28>>, <<32, 40>>}
ExtentAngles == {0, 180, 90, -90, 45, -135}

ChannelsExtent ==
    {[Channel("Height", <<1, 2>>, <<>>,
              <<ScanAngleTag(AngleValue(a, TRUE))>>, b)
        EXCEPT !.Position = p, !.Size = z, !.Rotated = r] :
        a \in ExtentAngles, b \in {<<8>>}, p \in Positions, z \in Sizes,
        r \in RotatedSizes}
    \cup {Channel("Height", <<1, 2>>, <<>>, <<>>, <<4>>)}

PlacedHeightMap == \E c \in ChannelsExtent : ReadChannel(c)

NextExtent ==
    \/ Begin
    \/ FreeProps
    \/ FirstHeightMaps
    \/ PlacedHeightMap
    \/ ReturnHeightMaps
    \/ Finish

SpecExtent == Init /\ [][NextExtent]_vars

\* One RenderedSpectra section whose entries vary in sample count and
\* wavenumber range.
FirstSpectra == nSections = 0 /\ EnterSpectra

DataPointsWide == {0, 1, 2, 5}
Wavenumbers == {0, 1000, 2000}

EntriesAxis ==
    [name : {"IRRenderedSpectra"}, Label : {"Spectrum"},
     DataPoints : DataPointsWide, StartWavenumber : Wavenumbers,
     EndWavenumber : Wavenumbers, SampleBase64 : {<<4>>, <<8>>, <<20>>}]

AxisSpectrum == \E e \in EntriesAxis : ReadEntry(e)

NextAxis ==
    \/ Begin
    \/ FreeProps
    \/ FirstSpectra
    \/ AxisSpectrum
    \/ ReturnSpectra
    \/ Finish

SpecAxis == Init /\ [][NextAxis]_vars

(***************************************************************************)
(* Properties.                                                             *)
(***************************************************************************)
Range(f) == {f[x] : x \in DOMAIN f}
PrimaryKeys(f) == {i \in DOMAIN f : i < RotatedBase}
RotatedKeys(f) == {i \in DOMAIN f : i >= RotatedBase}
EntryKeys == (DOMAIN container.sps) \ {0}
ReturnedByFinish == pc = "done" /\ "FileTypeError" \notin Range(errors)

\* C1: a root named Document that carries both attributes is rejected with
\* FileTypeError for every (DocType, Version) other than ("IR", "1.0"), and
\* passes validation only for ("IR", "1.0").
C1_OnlySupportedPairPasses ==
    (/\ pc \in {"validated", "done"}
     /\ props.name = "Document"
     /\ props.DocType # "NULL"
     /\ props.Version # "NULL")
    => ((pc = "done" /\ result = "NULL" /\ ErrorSlot = "FileTypeError")
        <=> ~(props.DocType = "IR" /\ props.Version = "1.0"))

\* C2: a validated import fails with NoDataError if and only if no valid
\* raster was produced in any height-map section of the document.
C2_NoDataIffNoRaster ==
    ReturnedByFinish
    => /\ (result = "NULL") <=> (totalValid = 0)
       /\ ("NoDataError" \in Range(errors)) <=> (totalValid = 0)

\* whether the exact product x*y of two parsed resolutions is k, for k >= 0
ExactProductIs(x, y, k) ==
    IF x = 0 THEN k = 0
    ELSE IF x > 0 THEN k % x = 0 /\ k \div x = y
    ELSE k % (-x) = 0 /\ k \div (-x) = -y

\* C3: in one call of readHeightMaps a channel whose resolutionX*resolutionY
\* is 0, or whose payload is not 4*(resolutionX*resolutionY) bytes, stores no
\* raster, no metadata map and no title and is not counted; every channel of
\* the section is visited, and a channel that passes both tests is stored and
\* counted.
C3_BadChannelSkipped ==
    chan.live =>
        LET n == chan.imageNum
            x == chan.resolution_x
            y == chan.resolution_y
            bad == \/ x = 0
                   \/ y = 0
                   \/ chan.decoded_size % 4 # 0
                   \/ ~ExactProductIs(x, y, chan.decoded_size \div 4)
            keys == {n, RotatedBase + n}
        IN  /\ n = nChildren
            /\ bad => /\ keys \cap DOMAIN container.data = {}
                      /\ keys \cap DOMAIN container.meta = {}
                      /\ keys \cap DOMAIN container.title = {}
                      /\ chan.emitted = EmptyContainer
            /\ ~bad => /\ n \in DOMAIN container.data
                       /\ n \in DOMAIN container.meta
                       /\ n \in DOMAIN container.title
            /\ hm_valid = Cardinality(PrimaryKeys(container.data))
            /\ totalValid = hm_valid

\* C4: after an import that returns the container, no collection, per-entry
\* or aggregate, holds a spectrum of an entry whose payload size mismatched.
C4_MismatchedEntryInNoCollection ==
    (pc = "done" /\ result = "container")
    => \A k \in DOMAIN container.sps :
          \A i \in 1..Len(container.sps[k].spectra) :
              container.sps[k].spectra[i].entry \notin mismatched

\* C5: after an import, the aggregate collection at key 0 holds the spectra
\* of the successfully decoded entries of the whole document, once each and
\* in document order, and every collection at a key >= 1 holds one spectrum.
C5_AggregateIsDecodedEntries ==
    (pc = "done" /\ result = "container" /\ 0 \in DOMAIN container.sps)
    => /\ [i \in 1..Len(container.sps[0].spectra) |->
              container.sps[0].spectra[i].entry] = decoded
       /\ \A k \in EntryKeys : Len(container.sps[k].spectra) = 1

\* C6: after an import, the K valid primary rasters occupy the keys 1..K,
\* every rotated raster is at 1,000,000 + the key of its primary, and the M
\* per-entry collections occupy the keys 1..M.
C6_SequentialKeys ==
    (pc = "done" /\ result = "container")
    => /\ PrimaryKeys(container.data) = 1..totalValid
       /\ \A r \in RotatedKeys(container.data) :
             r - RotatedBase \in PrimaryKeys(container.data)
       /\ EntryKeys = 1..Len(decoded)

\* C7: the caller finds no error after a success and one terminal error,
\* FileTypeError or NoDataError, after a failure; the slot is written at
\* most once in an import.
C7_OneTerminalErrorOrNone ==
    pc = "done"
    => /\ Len(errors) <= 1
       /\ result = "container" => ErrorSlot = "none"
       /\ result = "NULL" => ErrorSlot \in {"FileTypeError", "NoDataError"}

LastScanAngle(tags) ==
    LET named == SelectSeq(tags, LAMBDA t : t.Name = "ScanAngle")
    IN  IF named = <<>> THEN <<>> ELSE <<Last(named).Value>>

SIExponent(key) ==
    CASE key = "f" -> -15
      [] key = "p" -> -12
      [] key = "n" -> -9
      [] key = "u" -> -6
      [] key = "m" -> -3
      [] OTHER -> 0

\* C10: the multiplier of a channel is 1e-15, 1e-12, 1e-9, 1e-6, 1e-3 for the
\* UnitPrefix text f, p, n, u, m and 1.0 for any other or no text; it is one
\* of these six values, it does not depend on the channels read before, and
\* it is the scale of the samples stored.
C10_MultiplierFromPrefix ==
    chan.live =>
        LET keys == chan.childNode.UnitPrefix
            known == SelectSeq(keys, LAMBDA k : SIExponent(k) # 0)
            m == chan.zUnitMultiplier
        IN  /\ m \in {-15, -12, -9, -6, -3, 0}
            /\ keys = <<>> => m = 0
            /\ Len(keys) = 1 => m = SIExponent(keys[1])
            /\ m = IF known = <<>> THEN 0 ELSE SIExponent(Last(known))
            /\ chan.outcome = "stored"
               => \A k \in DOMAIN chan.emitted.data :
                     container.data[k].scale = m

\* a channel without UnitPrefix stored after a channel with prefix "u"
C10_NoPrefixAfterMicro ==
    /\ chan.live
    /\ chan.imageNum = 2
    /\ chan.outcome = "stored"
    /\ chan.childNode.UnitPrefix = <<>>
    /\ chan.zUnitMultiplier = 0
    /\ 1 \in DOMAIN container.data
    /\ container.data[1].scale = -6

\* C11: every entry with sample count N >= 1 gets an axis of N samples whose
\* offset is the start wavenumber and whose declared length is the finite
\* value ((end - start)/(N - 1))*N, which is 1250 for N = 5, start = 1000,
\* end = 2000; an entry with sample count below 1 is skipped.
C11_AxisWellDefined ==
    (ent.live /\ ent.outcome # "ignored") =>
        LET N == ent.childNode.DataPoints
            start == ent.childNode.StartWavenumber
            end == ent.childNode.EndWavenumber
            line == ent.dataline
        IN  /\ N < 1 => ent.outcome = "nopoints"
            /\ N >= 1 =>
                /\ ent.outcome # "nopoints"
                /\ line.res = N
                /\ line.off = start
                /\ line.real.kind = "fin"
                /\ line.real.num * (N - 1) = (end - start) * N * line.real.den
                /\ (N = 5 /\ start = 1000 /\ end = 2000) =>
                       line.real.num = 1250 * line.real.den

\* C12: a stored channel with a canonical angle has a raster of extent
\* (sizeX, sizeY) for 0 and 180 degrees and (sizeY, sizeX) for 90 and -90
\* degrees, whose offset on each axis is (position - 0.5*extent)*1e-6 with
\* that extent; for an oblique angle the un-rotated raster has offsets
\* (1.0, 1.0) and the rotated raster's offsets are position*1e-6 minus half of
\* the rotated raster's physical extent.
C12_ExtentsAndOffsets ==
    (chan.live /\ chan.outcome = "stored") =>
        LET n == chan.imageNum
            px == chan.childNode.Position[1]
            py == chan.childNode.Position[2]
            sx == chan.childNode.Size[1]
            sy == chan.childNode.Size[2]
            d == container.data[n]
        IN  IF chan.scan_angle \in {0, 180, 90, -90}
            THEN /\ chan.scan_angle \in {0, 180} =>
                        <<d.xreal, d.yreal>> = <<Micro(sx), Micro(sy)>>
                 /\ chan.scan_angle \in {90, -90} =>
                        <<d.xreal, d.yreal>> = <<Micro(sy), Micro(sx)>>
                 /\ 2 * d.xoff = 2 * Micro(px) - d.xreal
                 /\ 2 * d.yoff = 2 * Micro(py) - d.yreal
            ELSE LET r == container.data[RotatedBase + n]
                 IN  /\ d.xoff = Micro(1000000)
                     /\ d.yoff = Micro(1000000)
                     /\ 2 * r.xoff = 2 * Micro(px) - r.xreal
                     /\ 2 * r.yoff = 2 * Micro(py) - r.yreal

\* a quarter-turn channel of size 4 by 6 at (10, -3), stored after an oblique
\* one
C12_SwappedAfterOblique ==
    /\ chan.live
    /\ chan.outcome = "stored"
    /\ chan.imageNum = 2
    /\ chan.scan_angle = -90
    /\ chan.childNode.Size = <<4, 6>>
    /\ chan.childNode.Position = <<10, -3>>
    /\ container.data[2].xreal = Micro(6)
    /\ container.data[2].xoff = Micro(10) - Micro(3)
    /\ container.data[2].yoff = Micro(-3) - Micro(2)
    /\ RotatedBase + 1 \in DOMAIN container.data

\* C13: the import never crashes; with no root element it raises no
\* FileTypeError, processes zero sections and ends with NoDataError; a root
\* without DocType and Version attributes raises no FileTypeError.
C13_AbsentRootHandled ==
    /\ pc # "crashed"
    /\ (pc # "start" /\ rootElement = "NULL") =>
           /\ nSections = 0
           /\ "FileTypeError" \notin Range(errors)
           /\ pc = "done" => (result = "NULL" /\ ErrorSlot = "NoDataError")
    /\ (pc # "start" /\ props.DocType = "NULL" /\ props.Version = "NULL") =>
           "FileTypeError" \notin Range(errors)

\* C14: when a pass over a channel or an entry ends, everything it acquired
\* has been released; when the import has returned, the document has been
\* freed and the call holds nothing: the container has gone to the caller on
\* success and has been released on failure.
C14_EverythingReleased ==
    /\ chan.live => chan.unreleased = {}
    /\ (ent.live /\ ent.outcome # "ignored") => ent.unreleased = {}
    /\ pc = "done" => owned = {}

\* C15: a channel is decoded into a grid only when both parsed pixel counts
\* are positive and the payload holds exactly resolutionX*resolutionY
\* samples, the product taken exactly; and a channel is skipped for a zero
\* pixel count only when the exact product is zero.
C15_ExactPositiveProduct ==
    chan.live =>
        LET x == chan.resolution_x
            y == chan.resolution_y
        IN  /\ chan.outcome = "stored" =>
                /\ x > 0
                /\ y > 0
                /\ chan.decoded_size % 4 = 0
                /\ ExactProductIs(x, y, chan.decoded_size \div 4)
            /\ chan.outcome = "zero" => (x = 0 \/ y = 0)

====
